---- MODULE Spec2Model ----
(***************************************************************************)
(* gitops-compose: the reconciliation engine (internal/gitops,             *)
(* internal/deployment), the repository and stack collaborators it calls   *)
(* (internal/git, internal/compose) and the trigger scheduler of main.     *)
(***************************************************************************)
EXTENDS Integers, Sequences, FiniteSets, TLC

\* ------------------------------------------------------------------------
\* Bounds of the model
\* ------------------------------------------------------------------------
MaxCycles == 3      \* reconciliation cycles the worker starts
MaxPushes == 1      \* commits pushed to origin after process start
MaxFaults == 2      \* collaborator calls that fail
MaxWebhooks == 1    \* webhook requests served

\* ------------------------------------------------------------------------
\* Repository contents
\* ------------------------------------------------------------------------
\* Manifest paths of the repository, in the order the tree walk lists them.
PathSeq == <<"a", "b", "c">>

Paths == {PathSeq[i] : i \in 1..Len(PathSeq)}

\* Contents a docker-compose.yml can have: no file, two revisions of a plain
\* stack, a stack with an ignore label, a stack with a controller label, a
\* file the compose loader rejects.
Files == {"none", "v1", "v2", "ign", "ctl", "both", "wat", "bad"}

\* The contents each path takes in this model.
FilesAt(p) ==
    CASE p = "a" -> {"none", "v1", "v2", "bad"}
      [] p = "b" -> {"none", "ign", "ctl", "both"}
      [] OTHER   -> {"none", "v1"}

Trees == {t \in [Paths -> Files] : \A p \in Paths : t[p] \in FilesAt(p)}

\* compose.LoadProject: fails on a missing or invalid file.
LoadProjectOk(f) == f \notin {"none", "bad"}

\* The services of a loaded project, each with its labels (label -> value).
Services(f) ==
    CASE f = "v1"  -> << {} >>
      [] f = "v2"  -> << {}, {} >>
      [] f = "ign" -> << {}, {<<"gitops.ignore", "true">>} >>
      [] f = "ctl" -> << {<<"gitops.controller", "true">>, <<"gitops.ignore", "false">>} >>
      [] f = "both" -> << {<<"gitops.controller", "true">>}, {<<"gitops.ignore", "true">>} >>
      [] f = "wat" -> << {} >>
      [] OTHER     -> << >>

\* compose.ListImages: one image per service.
Images(f) == [i \in 1..Len(Services(f)) |-> i]

\* project.MarshalYAML: the resolved manifest text (a code per content).
ProjectYaml(f) ==
    CASE f = "v1"  -> 11
      [] f = "v2"  -> 12
      [] f = "ign" -> 13
      [] f = "ctl" -> 14
      [] f = "both" -> 15
      [] f = "wat" -> 16
      [] OTHER     -> 0

\* sha256 + hex of the manifest text: injective on the texts, never "".
Sha256Hex(y) == 1000 + 7 * y

\* The watch files a manifest may declare (x-gitops.watch), and what is at
\* their paths: a readable file with its bytes, or nothing that os.Open can
\* open (no file, or no permission).
WatchNames == {"w1", "w2"}

MaxWatchLen == 2

WatchBytes == UNION {[1..n -> {1, 2}] : n \in 0..MaxWatchLen}

WatchStates ==
    [open : {"ok"}, bytes : WatchBytes]
    \cup [open : {"ENOENT", "EACCES"}, bytes : {<< >>}]

NoWatchFiles == [w \in WatchNames |-> [open |-> "ENOENT", bytes |-> << >>]]

\* ComposeFile.GetWatchFiles: the resolved watch paths of a project.
GetWatchFiles(f) == IF f = "wat" THEN << "w1", "w2" >> ELSE << >>

RECURSIVE Hashed(_, _, _)
\* The bytes LoadConfig copies into the hash after the manifest text, from
\* watch file i on: a file that does not open is skipped.
Hashed(files, i, disk) ==
    IF i > Len(files) THEN << >>
    ELSE (IF disk[files[i]].open = "ok" THEN disk[files[i]].bytes ELSE << >>)
         \o Hashed(files, i + 1, disk)

RECURSIVE Num(_)
\* A byte string as a number (bijective numeration: injective).
Num(bytes) ==
    IF bytes = << >> THEN 0
    ELSE 2 * Num(SubSeq(bytes, 1, Len(bytes) - 1)) + bytes[Len(bytes)]

\* The input of the hash: the manifest text followed by the watched bytes
\* (a code per input, injective for texts below 100).
HashInput(y, bytes) == y + 100 * Num(bytes)

\* The hash field of a DeploymentConfig{} ("" in the code).
EmptyHash == 0

\* ------------------------------------------------------------------------
\* Deployment (internal/deployment)
\* ------------------------------------------------------------------------
ZeroConfig ==
    [hash |-> EmptyHash, isValid |-> FALSE, gitopsIgnore |-> FALSE,
     gitopsController |-> FALSE]

NewDeployment(filepath) ==
    [Filepath |-> filepath, State |-> "Unchanged", config |-> ZeroConfig,
     Error |-> "nil"]

HasLabel(f, label, value) ==
    \E i \in 1..Len(Services(f)) : <<label, value>> \in Services(f)[i]

\* The classification LoadConfig leaves: Updated when a previous config was
\* loaded and its hash differs.
StateAfterLoad(d, oldConfig, newHash) ==
    IF oldConfig # ZeroConfig /\ oldConfig.hash # newHash
    THEN "Updated" ELSE d.State

MutScanLabelsNoController(f) ==
    [gitopsIgnore |-> HasLabel(f, "gitops.ignore", "true"),
     gitopsController |-> FALSE]

MutScanLabelsAnyValue(f) ==
    [gitopsIgnore |-> \E v \in {"true", "false"} : HasLabel(f, "gitops.ignore", v),
     gitopsController |-> HasLabel(f, "gitops.controller", "true")]

ScanLabels(f) ==
    [gitopsIgnore |-> HasLabel(f, "gitops.ignore", "true"),
     gitopsController |-> HasLabel(f, "gitops.controller", "true")]

\* Deployment.LoadConfig on the file content f found on disk, with the
\* watch files as disk has them.
LoadConfigOn(d, f, disk) ==
    IF ~LoadProjectOk(f)
    THEN [d EXCEPT !.config = ZeroConfig]
    ELSE LET h == Sha256Hex(HashInput(ProjectYaml(f),
                                      Hashed(GetWatchFiles(f), 1, disk)))
             l == ScanLabels(f)
         IN [d EXCEPT
               !.config = [hash |-> h, isValid |-> TRUE,
                           gitopsIgnore |-> l.gitopsIgnore,
                           gitopsController |-> l.gitopsController],
               !.State = StateAfterLoad(d, d.config, h)]

\* LoadConfig of a manifest that declares no watch files.
LoadConfig(d, f) == LoadConfigOn(d, f, NoWatchFiles)

IsIgnored(d) == d.config.gitopsIgnore

IsController(d) == d.config.gitopsController

\* A collaborator call of one Apply that fails ("none": all succeed).
ApplyFaults ==
    {"none", "ListImages", "Pull1", "Pull2", "IsRunningS", "Stop",
     "IsRunningR", "Start"}

Op(op, p, f) == [op |-> op, p |-> p, f |-> f]

RECURSIVE PullFrom(_, _, _, _)
\* prepareImages' loop from image i on: docker.Pull per image, stopping at
\* the first failure.
PullFrom(d, f, i, fault) ==
    IF i > Len(Images(f)) THEN [err |-> "nil", ops |-> << >>]
    ELSE IF (i = 1 /\ fault = "Pull1") \/ (i = 2 /\ fault = "Pull2")
         THEN [err |-> "ErrImagePullBackoff",
               ops |-> << Op("PullImage", d.Filepath, f) >>]
         ELSE LET r == PullFrom(d, f, i + 1, fault)
              IN [err |-> r.err,
                  ops |-> << Op("PullImage", d.Filepath, f) >> \o r.ops]

MutPrepareImagesSkips(d, f, fault) == [err |-> "nil", ops |-> << >>]

prepareImages(d, f, fault) ==
    IF ~LoadProjectOk(f) \/ fault = "ListImages"
    THEN [err |-> "ErrOther", ops |-> << >>]
    ELSE PullFrom(d, f, 1, fault)

MutEnsureIsStoppedAlwaysStops(d, f, isRunning, fault) ==
    [changed |-> TRUE, err |-> "nil",
     ops |-> << Op("Stop", d.Filepath, f) >>, run |-> FALSE]

ensureIsStopped(d, f, isRunning, fault) ==
    IF ~LoadProjectOk(f) \/ fault = "IsRunningS"
    THEN [changed |-> FALSE, err |-> "ErrOther", ops |-> << >>, run |-> isRunning]
    ELSE IF isRunning
         THEN IF fault = "Stop"
              THEN [changed |-> FALSE, err |-> "ErrOther",
                    ops |-> << Op("Stop", d.Filepath, f) >>, run |-> isRunning]
              ELSE [changed |-> TRUE, err |-> "nil",
                    ops |-> << Op("Stop", d.Filepath, f) >>, run |-> FALSE]
         ELSE [changed |-> FALSE, err |-> "nil", ops |-> << >>, run |-> FALSE]

composeStart(d, f, isRunning, fault) ==
    IF ~LoadProjectOk(f) \/ fault = "Start"
    THEN [changed |-> FALSE, err |-> "ErrOther",
          ops |-> << Op("Start", d.Filepath, f) >>, run |-> isRunning]
    ELSE [changed |-> TRUE, err |-> "nil",
          ops |-> << Op("Start", d.Filepath, f) >>, run |-> TRUE]

MutEnsureIsRunningRestarts(d, f, isRunning, fault) ==
    composeStart(d, f, isRunning, fault)

ensureIsRunning(d, f, isRunning, fault) ==
    IF ~LoadProjectOk(f) \/ fault = "IsRunningR"
    THEN [changed |-> FALSE, err |-> "ErrOther", ops |-> << >>, run |-> isRunning]
    ELSE IF isRunning
         THEN [changed |-> FALSE, err |-> "nil", ops |-> << >>, run |-> TRUE]
         ELSE composeStart(d, f, isRunning, fault)

ApplyResult(d, changed, err, ops, run) ==
    [d |-> [d EXCEPT !.Error = err], changed |-> changed, err |-> err,
     ops |-> ops, run |-> run]

\* The Added case of Apply: any prepareImages error is reported as
\* ErrImagePullBackoff.
ApplyAdded(d, f, isRunning, fault) ==
    LET p == prepareImages(d, f, fault)
    IN IF p.err # "nil"
       THEN ApplyResult(d, FALSE, "ErrImagePullBackoff", p.ops, isRunning)
       ELSE LET s == composeStart(d, f, isRunning, fault)
            IN ApplyResult(d, s.err = "nil", s.err, p.ops \o s.ops, s.run)

ApplyRemoved(d, f, isRunning, fault) ==
    LET s == ensureIsStopped(d, f, isRunning, fault)
    IN ApplyResult(d, s.changed, s.err, s.ops, s.run)

MutApplyUpdatedKeepsRunning(d, f, isRunning, fault) ==
    LET p == prepareImages(d, f, fault)
    IN IF p.err # "nil"
       THEN ApplyResult(d, FALSE, p.err, p.ops, isRunning)
       ELSE LET r == ensureIsRunning(d, f, isRunning, fault)
            IN ApplyResult(d, r.changed, r.err, p.ops \o r.ops, r.run)

ApplyUpdated(d, f, isRunning, fault) ==
    LET p == prepareImages(d, f, fault)
    IN IF p.err # "nil"
       THEN ApplyResult(d, FALSE, p.err, p.ops, isRunning)
       ELSE LET s == ensureIsStopped(d, f, isRunning, fault)
            IN IF s.err # "nil"
               THEN ApplyResult(d, FALSE, s.err, p.ops \o s.ops, s.run)
               ELSE LET r == ensureIsRunning(d, f, s.run, fault)
                    IN ApplyResult(d, r.changed, r.err,
                                   p.ops \o s.ops \o r.ops, r.run)

ApplyUnchanged(d, f, isRunning, fault) ==
    LET p == prepareImages(d, f, fault)
    IN IF p.err # "nil"
       THEN ApplyResult(d, FALSE, p.err, p.ops, isRunning)
       ELSE LET r == ensureIsRunning(d, f, isRunning, fault)
            IN ApplyResult(d, r.changed, r.err, p.ops \o r.ops, r.run)

\* Deployment.Apply: d is the deployment, f the manifest on disk, isRunning
\* the stack's state, fault the collaborator call that fails.  Yields the
\* deployment with its Error set, (wasChanged, err), the collaborator calls
\* made, and the stack's state afterwards.
Apply(d, f, isRunning, fault) ==
    IF ~d.config.isValid
    THEN ApplyResult(d, FALSE, "ErrInvalidComposeFile", << >>, isRunning)
    ELSE IF d.config.gitopsIgnore \/ d.config.gitopsController
    THEN ApplyResult(d, FALSE, "nil", << >>, isRunning)
    ELSE CASE d.State = "Added"     -> ApplyAdded(d, f, isRunning, fault)
           [] d.State = "Removed"   -> ApplyRemoved(d, f, isRunning, fault)
           [] d.State = "Updated"   -> ApplyUpdated(d, f, isRunning, fault)
           [] d.State = "Unchanged" -> ApplyUnchanged(d, f, isRunning, fault)
           [] OTHER -> ApplyResult(d, FALSE, "ErrUnknownDeploymentState",
                                   << >>, isRunning)

\* ------------------------------------------------------------------------
\* Cycle counters (metrics.DeploymentState)
\* ------------------------------------------------------------------------
NewState ==
    [Unchanged |-> 0, Started |-> 0, Stopped |-> 0, Updated |-> 0,
     Failed |-> 0, Invalid |-> 0, Ignored |-> 0]

Inc(st, field) == [st EXCEPT ![field] = @ + 1]

CountRunning(st) == st.Unchanged + st.Started + st.Updated

CountTotal(st) ==
    st.Unchanged + st.Started + st.Stopped + st.Updated + st.Failed
    + st.Invalid + st.Ignored

\* Metrics.TrackState: the sink takes the cycle's counts over, or merges
\* those of a retry pass into its own.
MutTrackStateAddsOnly(cur, st, replace) ==
    IF replace THEN st
    ELSE [k \in DOMAIN cur |-> cur[k] + st[k]]

TrackState(cur, st, replace) ==
    IF replace THEN st
    ELSE [k \in DOMAIN cur |->
            IF k = "Failed" THEN cur[k] - CountTotal(st) + st[k]
            ELSE cur[k] + st[k]]

\* The counter applyDeploymentChange increments for an Apply outcome.
MutCounterForNoInvalid(dstate, changed, err) ==
    IF err # "nil" THEN "Failed"
    ELSE IF changed THEN "Started" ELSE "Unchanged"

CounterFor(dstate, changed, err) ==
    IF err = "ErrInvalidComposeFile" THEN "Invalid"
    ELSE IF err # "nil" THEN "Failed"
    ELSE CASE dstate = "Added"   -> IF changed THEN "Started" ELSE "Unchanged"
           [] dstate = "Updated" -> IF changed THEN "Updated" ELSE "Unchanged"
           [] dstate = "Removed" -> IF changed THEN "Stopped" ELSE "Unchanged"
           [] OTHER              -> IF changed THEN "Started" ELSE "Unchanged"

\* GitOps.applyDeploymentChange: Apply, then count the outcome.
MutApplyDeploymentChangeNoReturn(d, f, isRunning, fault, st) ==
    LET r == Apply(d, f, isRunning, fault)
    IN [d |-> r.d,
        state |-> IF r.err = "nil"
                  THEN Inc(st, CounterFor(r.d.State, r.changed, r.err))
                  ELSE Inc(Inc(st, "Failed"),
                           CounterFor(r.d.State, r.changed, "nil")),
        ops |-> r.ops \o << Op("Apply", d.Filepath, r.err) >>,
        run |-> r.run]

applyDeploymentChange(d, f, isRunning, fault, st) ==
    LET r == Apply(d, f, isRunning, fault)
    IN [d |-> r.d,
        state |-> Inc(st, CounterFor(r.d.State, r.changed, r.err)),
        ops |-> r.ops \o << Op("Apply", d.Filepath, r.err) >>,
        run |-> r.run]

\* Docker.Pull on an image: with the image in the local store it returns
\* without a pull, otherwise it fetches the image from the registry.
MutDockerPullAlwaysFetches(exists) == "registry"

DockerPull(exists) == IF exists THEN "local" ELSE "registry"

\* The Docker.Pull calls among the collaborator calls ops of one Apply.
PullCalls(ops) == {k \in DOMAIN ops : ops[k].op = "PullImage"}

\* The images for which Docker.Pull returned nil in one Apply that made
\* the calls ops and returned err: prepareImages pulls the images in order
\* and stops at the first failure.
Pulled(ops, err) ==
    1 .. (Cardinality(PullCalls(ops))
          - (IF err = "ErrImagePullBackoff" THEN 1 ELSE 0))

RECURSIVE WithRegistry(_, _, _, _)
\* The calls ops of one Apply with a "RegistryPull" after each Docker.Pull
\* that fetched its image from the registry; n Docker.Pull calls precede
\* ops, ok are the images whose Docker.Pull returned nil, store the images
\* held locally at the start of the Apply.
WithRegistry(ops, n, ok, store) ==
    IF ops = << >> THEN << >>
    ELSE LET o == Head(ops)
         IN IF o.op = "PullImage"
            THEN << o >>
                 \o (IF n + 1 \in ok /\ DockerPull(n + 1 \in store) = "registry"
                     THEN << Op("RegistryPull", o.p, o.f) >> ELSE << >>)
                 \o WithRegistry(Tail(ops), n + 1, ok, store)
            ELSE << o >> \o WithRegistry(Tail(ops), n, ok, store)

\* ------------------------------------------------------------------------
\* Repository collaborator (internal/git)
\* ------------------------------------------------------------------------
\* filterComposeFiles: the docker-compose.yml paths of a commit's tree.
ComposeFilesOf(tree) == SelectSeq(PathSeq, LAMBDA p : tree[p] # "none")

Contains(seq, x) == \E i \in 1..Len(seq) : seq[i] = x

\* DeploymentRepo.HasChanges: a dirty worktree or a failed fetch is an error;
\* a fetch that brings nothing reports no change; otherwise the local and the
\* fetched remote head are compared.
HasChanges(fault, lcl, trk, org) ==
    IF fault \in {"dirty", "fetch"}
    THEN [err |-> TRUE, has |-> FALSE, tracking |-> trk]
    ELSE IF trk = org
         THEN [err |-> FALSE, has |-> FALSE, tracking |-> trk]
         ELSE [err |-> FALSE, has |-> lcl # org, tracking |-> org]

\* ------------------------------------------------------------------------
\* State
\* ------------------------------------------------------------------------
VARIABLES
    origin,               \* tree of the remote repository's main head
    tracking,             \* tree of refs/remotes/origin/main
    local,                \* tree of refs/heads/main and the working copy
    running,              \* paths whose stack is running
    retryDeployments,     \* GitOps.retryDeployments
    isFirstCheck,         \* GitOps.isFirstCheck
    metricsState,         \* Metrics.state: the aggregate counts of the sink
    wpc,                  \* position of the worker goroutine
    tpc,                  \* position of the ticker goroutine
    mpc,                  \* position of main
    checkClosed,          \* the check channel has been closed
    lastHook,             \* outcome of the last webhook request
    path,                 \* branch the current/last cycle took
    cerr,                 \* cycle-level error of the current/last cycle
    hasChanges,           \* result of HasChanges in the current/last cycle
    localComposeFiles,    \* listing of the local head
    remoteComposeFiles,   \* listing of the remote head
    deployments,          \* deployments of the current/last full pass
    idx,                  \* loop index of the phase in progress
    state,                \* counters of the current/last cycle
    newRetryDeployments,  \* retry set being collected
    log,                  \* collaborator calls of the current/last cycle
    active,               \* CheckAndUpdate calls entered and not returned
    cycles, pushes, faults, hooks,
    imageStore,           \* the images the docker daemon holds locally
    watchFiles,           \* what is at the paths of the watch files
    watchSeen             \* watchFiles as the latest LoadConfig found it

watchVars == <<watchFiles, watchSeen>>

envVars == <<origin, tracking, local, running, imageStore, watchVars>>

gitopsVars == <<retryDeployments, isFirstCheck, metricsState>>

schedVars == <<tpc, mpc, checkClosed, lastHook, hooks>>

cycleVars ==
    <<wpc, path, cerr, hasChanges, localComposeFiles, remoteComposeFiles,
      deployments, idx, state, newRetryDeployments, log, active, cycles>>

vars == <<envVars, gitopsVars, schedVars, cycleVars, pushes, faults>>

\* The images of the manifests in tree at the paths ps.
ImagesOf(tree, ps) ==
    UNION {{Images(tree[p])[i] : i \in DOMAIN Images(tree[p])} : p \in ps}

\* NewGitOps, and main up to the start of the goroutines, with the clone at
\* tree lcl, the remote repository at tree org and the stacks run running.
InitOn(lcl, org, run, disk) ==
    /\ watchFiles = disk
    /\ watchSeen = disk
    /\ origin = org
    /\ local = lcl
    /\ tracking = lcl
    /\ running = run
    /\ imageStore = ImagesOf(lcl, run)
    /\ retryDeployments = << >>
    /\ isFirstCheck = TRUE
    /\ metricsState = NewState
    /\ wpc = "recv"
    /\ tpc = "wait"
    /\ mpc = "serve"
    /\ checkClosed = FALSE
    /\ lastHook = "none"
    /\ path = "none"
    /\ cerr = "nil"
    /\ hasChanges = FALSE
    /\ localComposeFiles = << >>
    /\ remoteComposeFiles = << >>
    /\ deployments = << >>
    /\ idx = 0
    /\ state = NewState
    /\ newRetryDeployments = << >>
    /\ log = << >>
    /\ active = 0
    /\ cycles = 0
    /\ pushes = 0
    /\ faults = 0
    /\ hooks = 0

\* Process start with no watch files on disk.
InitWith(lcl, org, run) == InitOn(lcl, org, run, NoWatchFiles)

\* The stacks that may be running at process start: none, or those of the
\* valid local manifests.
InitRunning(lcl) == {{}, {p \in Paths : LoadProjectOk(lcl[p])}}

\* Process start with one plain stack declared and the remote possibly ahead.
Init ==
    \E lcl \in {t \in Trees : t["a"] = "v1" /\ t["b"] = "none" /\ t["c"] = "none"} :
    \E org \in {t \in Trees : t["b"] = "none" /\ t["c"] = "none"} :
    \E run \in InitRunning(lcl) :
        InitWith(lcl, org, run)

\* Process start with any manifests at paths a and b, locally and remotely.
InitRec ==
    \E lcl \in {t \in Trees : t["c"] = "none"} :
    \E org \in {t \in Trees : t["c"] = "none"} :
    \E run \in InitRunning(lcl) :
        InitWith(lcl, org, run)

Alive == mpc \notin {"exited", "crashed"}

\* ------------------------------------------------------------------------
\* Environment
\* ------------------------------------------------------------------------
\* Somebody pushes a commit to the remote repository that adds, changes or
\* deletes one manifest.
Push ==
    /\ Alive
    /\ pushes < MaxPushes
    /\ \E p \in Paths : \E f \in FilesAt(p) \ {origin[p]} :
          origin' = [origin EXCEPT ![p] = f]
    /\ pushes' = pushes + 1
    /\ UNCHANGED <<tracking, local, running, imageStore, watchVars, gitopsVars,
                   schedVars, cycleVars, faults>>

\* ------------------------------------------------------------------------
\* Scheduler (main)
\* ------------------------------------------------------------------------
\* The worker goroutine is blocked in "for range check".
MutWorkerReadyAlways == wpc # "exited"

WorkerReady == wpc = "recv"

\* The worker receives a trigger and calls CheckAndUpdate.
EnterCycle ==
    /\ wpc' = "check"
    /\ active' = active + 1
    /\ cycles' = cycles + 1
    /\ path' = "none"
    /\ cerr' = "nil"
    /\ hasChanges' = FALSE
    /\ localComposeFiles' = << >>
    /\ remoteComposeFiles' = << >>
    /\ deployments' = << >>
    /\ idx' = 0
    /\ state' = NewState
    /\ newRetryDeployments' = << >>
    /\ log' = << >>

\* ticker.C delivers a tick: the ticker goroutine goes to its send.
Tick ==
    /\ Alive
    /\ tpc = "wait"
    /\ cycles < MaxCycles
    /\ tpc' = "send"
    /\ UNCHANGED <<envVars, gitopsVars, mpc, checkClosed, lastHook, hooks,
                   cycleVars, pushes, faults>>

\* The ticker's send on the unbuffered channel finds no receiver: the
\* goroutine blocks in the send, queued at the channel.
TickerPark ==
    /\ Alive
    /\ tpc = "send"
    /\ ~checkClosed
    /\ ~WorkerReady
    /\ tpc' = "parked"
    /\ UNCHANGED <<envVars, gitopsVars, mpc, checkClosed, lastHook, hooks,
                   cycleVars, pushes, faults>>

\* The ticker's send on the unbuffered channel meets the worker's receive.
TickerSend ==
    /\ Alive
    /\ tpc \in {"send", "parked"}
    /\ ~checkClosed
    /\ WorkerReady
    /\ cycles < MaxCycles
    /\ tpc' = "wait"
    /\ EnterCycle
    /\ UNCHANGED <<envVars, gitopsVars, mpc, checkClosed, lastHook, hooks,
                   pushes, faults>>

\* A send on the closed channel panics and takes the process down.
TickerPanic ==
    /\ Alive
    /\ tpc \in {"send", "parked"}
    /\ checkClosed
    /\ mpc' = "crashed"
    /\ UNCHANGED <<envVars, gitopsVars, tpc, checkClosed, lastHook, hooks,
                   cycleVars, pushes, faults>>

\* A receiver is queued at the channel: the worker is blocked in its receive.
\* Its receive would have taken the value of a sender queued before it.
ReceiverWaiting == WorkerReady /\ tpc # "parked"

\* The select of the /webhook handler: the send case when a receiver waits,
\* the default case otherwise; a send on the closed channel panics.
MutSelectSendAlways(closed, waiting) ==
    IF closed THEN "panic" ELSE "accepted"

SelectSend(closed, waiting) ==
    IF closed THEN "panic"
    ELSE IF waiting THEN "accepted"
    ELSE "dropped"

\* The /webhook handler: a non-blocking send.
Webhook ==
    /\ Alive
    /\ mpc \in {"serve", "shutdown"}
    /\ hooks < MaxWebhooks
    /\ hooks' = hooks + 1
    /\ lastHook' = SelectSend(checkClosed, ReceiverWaiting)
    /\ IF lastHook' = "accepted"
       THEN cycles < MaxCycles /\ EnterCycle
       ELSE UNCHANGED cycleVars
    /\ UNCHANGED <<envVars, gitopsVars, tpc, mpc, checkClosed, pushes, faults>>

\* main receives the termination signal and closes the channel.
Signal ==
    /\ mpc = "serve"
    /\ mpc' = "shutdown"
    /\ checkClosed' = TRUE
    /\ UNCHANGED <<envVars, gitopsVars, tpc, lastHook, hooks, cycleVars,
                   pushes, faults>>

\* s.Shutdown returns; main goes on to wg.Wait.
HttpShutdown ==
    /\ mpc = "shutdown"
    /\ mpc' = "wait"
    /\ UNCHANGED <<envVars, gitopsVars, tpc, checkClosed, lastHook, hooks,
                   cycleVars, pushes, faults>>

\* The worker's range loop ends on the closed channel.
WorkerExit ==
    /\ Alive
    /\ wpc = "recv"
    /\ checkClosed
    /\ wpc' = "exited"
    /\ UNCHANGED <<envVars, gitopsVars, schedVars, path, cerr, hasChanges,
                   localComposeFiles, remoteComposeFiles, deployments, idx,
                   state, newRetryDeployments, log, active, cycles, pushes,
                   faults>>

\* wg.Wait returns and main ends.
MainExit ==
    /\ mpc = "wait"
    /\ wpc = "exited"
    /\ mpc' = "exited"
    /\ UNCHANGED <<envVars, gitopsVars, tpc, checkClosed, lastHook, hooks,
                   cycleVars, pushes, faults>>

\* ------------------------------------------------------------------------
\* Reconciler (GitOps.CheckAndUpdate, GitOps.checkAndUpdateDeployments)
\* ------------------------------------------------------------------------
Status(st) == Op("TrackCheckStatus", "-", st)

\* A fault may be injected while the budget lasts.
MayFail(fault) == fault = "none" \/ faults < MaxFaults

Spend(fault) == IF fault = "none" THEN faults ELSE faults + 1

\* CheckAndUpdate returns: the deferred functions have run.
Return ==
    /\ wpc' = "recv"
    /\ active' = active - 1
    /\ isFirstCheck' = FALSE

\* Whether CheckAndUpdate takes the full-diff branch.
MutFullDiffAlways(has, first) == TRUE

FullDiff(has, first) == has \/ first

\* The retry set CheckAndUpdate leaves when HasChanges fails: it returns
\* before the deferred function that stores the new retry set is registered.
MutRetryOnCheckErrorCleared(retry) == << >>

RetryOnCheckError(retry) == retry

\* CheckAndUpdate up to the branch: HasChanges and the check status.
CheckStep ==
    /\ Alive
    /\ UNCHANGED metricsState
    /\ wpc = "check"
    /\ \E fault \in {"none", "dirty", "fetch"} :
        LET r == HasChanges(fault, local, tracking, origin) IN
        /\ MayFail(fault)
        /\ faults' = Spend(fault)
        /\ tracking' = r.tracking
        /\ hasChanges' = r.has
        /\ IF r.err
           THEN /\ log' = Append(log, Status("error"))
                /\ cerr' = "HasChanges"
                /\ Return
                /\ retryDeployments' = RetryOnCheckError(retryDeployments)
                /\ UNCHANGED <<path, idx>>
           ELSE /\ log' = Append(log, Status("success"))
                /\ cerr' = "nil"
                /\ IF FullDiff(r.has, isFirstCheck)
                   THEN wpc' = "list" /\ path' = "full" /\ idx' = 0
                   ELSE wpc' = "retry" /\ path' = "retry" /\ idx' = 1
                /\ UNCHANGED <<retryDeployments, isFirstCheck, active>>
    /\ UNCHANGED <<origin, local, running, imageStore, watchVars, schedVars,
                   localComposeFiles, remoteComposeFiles, deployments, state,
                   newRetryDeployments, cycles, pushes>>

\* The full pass ends with a cycle-level error: the deferred function stores
\* the retry set collected so far, which is empty.
Abort(what, entries) ==
    /\ log' = log \o entries \o << Status("error") >>
    /\ cerr' = what
    /\ retryDeployments' = newRetryDeployments
    /\ Return

\* The deployment built for a path of the local listing.
MutLocalDeploymentNeverRemoved(p, remoteFiles, f) ==
    LoadConfig(NewDeployment(p), f)

LocalDeployment(p, remoteFiles, f) ==
    LET d == LoadConfig(NewDeployment(p), f)
    IN IF ~Contains(remoteFiles, p) THEN [d EXCEPT !.State = "Removed"] ELSE d

AddedDeployment(p) == [NewDeployment(p) EXCEPT !.State = "Added"]

\* The deployments of a cycle: one per local path, then one per remote-only
\* path.
BuildDeployments(localFiles, remoteFiles, disk) ==
    LET remoteOnly == SelectSeq(remoteFiles, LAMBDA p : ~Contains(localFiles, p))
    IN [i \in 1..Len(localFiles) |->
            LocalDeployment(localFiles[i], remoteFiles, disk[localFiles[i]])]
       \o [i \in 1..Len(remoteOnly) |-> AddedDeployment(remoteOnly[i])]

\* The paths whose deployment has LoadConfig called while the deployments are
\* built: those of the local listing.
MutLoadedAtBuildAll(localFiles, remoteFiles) ==
    localFiles \o SelectSeq(remoteFiles, LAMBDA p : ~Contains(localFiles, p))

LoadedAtBuild(localFiles, remoteFiles) == localFiles

LoadOps(files, disk) ==
    [i \in 1..Len(files) |-> Op("LoadConfig", files[i], disk[files[i]])]

\* checkAndUpdateDeployments up to the registry login.
ListStep ==
    /\ Alive
    /\ UNCHANGED metricsState
    /\ wpc = "list"
    /\ \E fault \in {"none", "listLocal", "listRemote", "login"} :
        LET lf == ComposeFilesOf(local)
            rf == ComposeFilesOf(tracking)
        IN
        /\ MayFail(fault)
        /\ faults' = Spend(fault)
        /\ CASE fault = "listLocal" ->
                  /\ Abort("list", << Op("ListLocal", "-", "err") >>)
                  /\ UNCHANGED <<localComposeFiles, remoteComposeFiles,
                                 deployments, idx>>
             [] fault = "listRemote" ->
                  /\ Abort("list", << Op("ListLocal", "-", "ok"),
                                      Op("ListRemote", "-", "err") >>)
                  /\ localComposeFiles' = lf
                  /\ UNCHANGED <<remoteComposeFiles, deployments, idx>>
             [] fault = "login" ->
                  /\ Abort("login", << Op("ListLocal", "-", "ok"),
                                       Op("ListRemote", "-", "ok") >>
                                    \o LoadOps(LoadedAtBuild(lf, rf), local)
                                    \o << Op("Login", "-", "err") >>)
                  /\ localComposeFiles' = lf
                  /\ remoteComposeFiles' = rf
                  /\ UNCHANGED <<deployments, idx>>
             [] OTHER ->
                  /\ log' = log \o << Op("ListLocal", "-", "ok"),
                                      Op("ListRemote", "-", "ok") >>
                                \o LoadOps(LoadedAtBuild(lf, rf), local)
                                \o << Op("Login", "-", "ok") >>
                  /\ localComposeFiles' = lf
                  /\ remoteComposeFiles' = rf
                  /\ deployments' = BuildDeployments(lf, rf, local)
                  /\ idx' = 1
                  /\ wpc' = "stop"
                  /\ UNCHANGED <<cerr, retryDeployments, isFirstCheck, active>>
    /\ UNCHANGED <<envVars, schedVars, path, hasChanges, state,
                   newRetryDeployments, cycles, pushes>>

\* The deployments the stop loop applies.
MutStopTargetAnyState(d) == ~IsIgnored(d) /\ ~IsController(d)

StopTarget(d) == ~IsIgnored(d) /\ ~IsController(d) /\ d.State = "Removed"

\* The deployments the apply loop applies.
MutApplyTargetAnyState(d) == ~IsIgnored(d) /\ ~IsController(d)

ApplyTarget(d) == ~IsIgnored(d) /\ ~IsController(d) /\ d.State # "Removed"

\* The first index from i on whose deployment the loop does not skip.
NextFrom(ds, i, Target(_)) ==
    LET S == {j \in i..Len(ds) : Target(ds[j])}
    IN IF S = {} THEN Len(ds) + 1 ELSE CHOOSE j \in S : \A k \in S : j <= k

\* Where a loop goes on after applyDeploymentChange returned for entry j:
\* the error is logged and counted there, and the loop takes the next entry.
MutAfterApplyBreaks(j, err) == IF err # "nil" THEN j + Len(PathSeq) ELSE j + 1

AfterApply(j, err) == j + 1

\* One iteration of a loop over the cycle's deployments that calls
\* applyDeploymentChange on deployment j.
ApplyAt(j) ==
    \E fault \in ApplyFaults :
        LET d == deployments[j]
            p == d.Filepath
            r == applyDeploymentChange(d, local[p], p \in running, fault, state)
            n == applyDeploymentChange(d, local[p], p \in running, "none", state)
        IN
        /\ fault = "none" \/ (faults < MaxFaults /\ r # n)
        /\ faults' = Spend(fault)
        /\ deployments' = [deployments EXCEPT ![j] = r.d]
        /\ state' = r.state
        /\ log' = log \o WithRegistry(r.ops, 0, Pulled(r.ops, r.d.Error), imageStore)
        /\ imageStore' = imageStore \cup Pulled(r.ops, r.d.Error)
        /\ running' = IF r.run THEN running \cup {p} ELSE running \ {p}
        /\ idx' = AfterApply(j, r.d.Error)

\* One iteration of the loop that stops the removed deployments.
StopStep ==
    /\ Alive
    /\ wpc = "stop"
    /\ NextFrom(deployments, idx, StopTarget) <= Len(deployments)
    /\ ApplyAt(NextFrom(deployments, idx, StopTarget))
    /\ UNCHANGED <<origin, tracking, local, watchVars, gitopsVars, schedVars, wpc, path,
                   cerr, hasChanges, localComposeFiles, remoteComposeFiles,
                   newRetryDeployments, active, cycles, pushes>>

\* The stop loop is through; repo.Pull: git pull brings the remote head into
\* the working copy.
PullStep ==
    /\ Alive
    /\ UNCHANGED metricsState
    /\ wpc = "stop"
    /\ NextFrom(deployments, idx, StopTarget) > Len(deployments)
    /\ \E fault \in {"none", "pull"} :
        /\ MayFail(fault)
        /\ faults' = Spend(fault)
        /\ IF fault = "pull"
           THEN /\ Abort("pull", << Op("RepoPull", "-", "err") >>)
                /\ UNCHANGED <<local, tracking>>
           ELSE /\ log' = Append(log, Op("RepoPull", "-", "ok"))
                /\ local' = origin
                /\ tracking' = origin
                /\ wpc' = "reload"
                /\ UNCHANGED <<cerr, retryDeployments, isFirstCheck, active>>
    /\ UNCHANGED <<origin, running, imageStore, watchVars, schedVars, path, hasChanges,
                   localComposeFiles, remoteComposeFiles, deployments, idx,
                   state, newRetryDeployments, cycles, pushes>>

FilepathsOf(ds) == [i \in 1..Len(ds) |-> ds[i].Filepath]

\* The deployments whose config the reload loop loads again.
ReloadTarget(d) == d.State # "Removed"

\* The loop that reloads the configs after the pull.
ReloadStep ==
    /\ Alive
    /\ wpc = "reload"
    /\ deployments' =
         [i \in 1..Len(deployments) |->
            IF ReloadTarget(deployments[i])
            THEN LoadConfig(deployments[i], local[deployments[i].Filepath])
            ELSE deployments[i]]
    /\ log' = log \o LoadOps(FilepathsOf(SelectSeq(deployments, ReloadTarget)),
                               local)
    /\ idx' = 1
    /\ wpc' = "apply"
    /\ UNCHANGED <<envVars, gitopsVars, schedVars, path, cerr, hasChanges,
                   localComposeFiles, remoteComposeFiles, state,
                   newRetryDeployments, active, cycles, pushes, faults>>

\* One iteration of the loop that applies the added, updated and unchanged
\* deployments.
ApplyStep ==
    /\ Alive
    /\ wpc = "apply"
    /\ NextFrom(deployments, idx, ApplyTarget) <= Len(deployments)
    /\ ApplyAt(NextFrom(deployments, idx, ApplyTarget))
    /\ UNCHANGED <<origin, tracking, local, watchVars, gitopsVars, schedVars, wpc, path,
                   cerr, hasChanges, localComposeFiles, remoteComposeFiles,
                   newRetryDeployments, active, cycles, pushes>>

\* The counter the post deployment operations increment for a deployment
\* ("none": no counter).
MutPostCounterAnyState(d) ==
    IF IsIgnored(d) THEN "Ignored"
    ELSE IF IsController(d) /\ d.State \in {"Removed", "Added"} THEN "Failed"
    ELSE "none"

MutPostCounterNoController(d) ==
    IF IsIgnored(d)
    THEN IF d.State # "Removed" THEN "Ignored" ELSE "none"
    ELSE "none"

PostCounter(d) ==
    IF IsIgnored(d)
    THEN IF d.State # "Removed" THEN "Ignored" ELSE "none"
    ELSE IF IsController(d) /\ d.State \in {"Removed", "Added"} THEN "Failed"
    ELSE "none"

RECURSIVE PostOperations(_, _, _)
\* The post deployment operations loop from deployment i on.
PostOperations(ds, i, st) ==
    IF i > Len(ds) THEN st
    ELSE PostOperations(ds, i + 1,
            IF PostCounter(ds[i]) = "none" THEN st
            ELSE Inc(st, PostCounter(ds[i])))

\* Whether a deployment is scheduled for retry.
MutNeedsRetryAnyError(d) == d.Error # "nil"

MutNeedsRetryNever(d) == FALSE

NeedsRetry(d) == d.Error = "ErrImagePullBackoff"

\* The apply loop is through: post deployment operations, TrackState, the
\* retry set of the cycle, return.
FinishFull ==
    /\ Alive
    /\ wpc = "apply"
    /\ NextFrom(deployments, idx, ApplyTarget) > Len(deployments)
    /\ state' = PostOperations(deployments, 1, state)
    /\ log' = Append(log, Op("TrackState", "-", "replace"))
    /\ metricsState' = TrackState(metricsState, state', TRUE)
    /\ newRetryDeployments' = SelectSeq(deployments, NeedsRetry)
    /\ retryDeployments' = newRetryDeployments'
    /\ Return
    /\ UNCHANGED <<envVars, schedVars, path, cerr, hasChanges,
                   localComposeFiles, remoteComposeFiles, deployments, idx,
                   cycles, pushes, faults>>

\* One iteration of the retry loop of a cycle without repository changes.
RetryStep ==
    /\ Alive
    /\ UNCHANGED metricsState
    /\ wpc = "retry"
    /\ idx <= Len(retryDeployments)
    /\ \E fault \in ApplyFaults :
        LET d == retryDeployments[idx]
            p == d.Filepath
            r == applyDeploymentChange(d, local[p], p \in running, fault, state)
            n == applyDeploymentChange(d, local[p], p \in running, "none", state)
        IN
        /\ fault = "none" \/ (faults < MaxFaults /\ r # n)
        /\ faults' = Spend(fault)
        /\ retryDeployments' = [retryDeployments EXCEPT ![idx] = r.d]
        /\ newRetryDeployments' =
             IF NeedsRetry(r.d) THEN Append(newRetryDeployments, r.d)
             ELSE newRetryDeployments
        /\ state' = r.state
        /\ log' = log \o WithRegistry(r.ops, 0, Pulled(r.ops, r.d.Error), imageStore)
        /\ imageStore' = imageStore \cup Pulled(r.ops, r.d.Error)
        /\ running' = IF r.run THEN running \cup {p} ELSE running \ {p}
        /\ idx' = AfterApply(idx, r.d.Error)
    /\ UNCHANGED <<origin, tracking, local, watchVars, isFirstCheck, schedVars, wpc,
                   path, cerr, hasChanges, localComposeFiles,
                   remoteComposeFiles, deployments, active, cycles, pushes>>

\* The retry loop is through: TrackState, the new retry set, return.
FinishRetry ==
    /\ Alive
    /\ wpc = "retry"
    /\ idx > Len(retryDeployments)
    /\ log' = Append(log, Op("TrackState", "-", "merge"))
    /\ metricsState' = TrackState(metricsState, state, FALSE)
    /\ retryDeployments' = newRetryDeployments
    /\ Return
    /\ UNCHANGED <<envVars, schedVars, path, cerr, hasChanges,
                   localComposeFiles, remoteComposeFiles, deployments, idx,
                   state, newRetryDeployments, cycles, pushes, faults>>

Next ==
    \/ Push
    \/ Tick
    \/ TickerPark
    \/ TickerSend
    \/ TickerPanic
    \/ Webhook
    \/ Signal
    \/ HttpShutdown
    \/ WorkerExit
    \/ MainExit
    \/ CheckStep
    \/ ListStep
    \/ StopStep
    \/ PullStep
    \/ ReloadStep
    \/ ApplyStep
    \/ FinishFull
    \/ RetryStep
    \/ FinishRetry

\* The reconciler alone: the timer is the only producer of triggers and no
\* termination signal arrives.
NextRec ==
    \/ Push
    \/ Tick
    \/ TickerSend
    \/ CheckStep
    \/ ListStep
    \/ StopStep
    \/ PullStep
    \/ ReloadStep
    \/ ApplyStep
    \/ FinishFull
    \/ RetryStep
    \/ FinishRetry

SpecRec == InitRec /\ [][NextRec]_vars

Spec == Init /\ [][Next]_vars

\* ------------------------------------------------------------------------
\* Properties
\* ------------------------------------------------------------------------
\* The log entries of the current/last cycle with one of the operations ops.
Entries(ops) == {i \in DOMAIN log : log[i].op \in ops}

\* Some call of one of ops was made for path p.
Called(ops, p) == \E i \in Entries(ops) : log[i].p = p

\* The full pass has built its deployments.
Built ==
    /\ path = "full"
    /\ \/ wpc \in {"stop", "reload", "apply"}
       \/ wpc \in {"recv", "exited"} /\ cerr \in {"nil", "pull"}

\* A full pass ran to its end without a cycle-level error.
FullDone == wpc = "recv" /\ path = "full" /\ cerr = "nil"

\* A retry pass ran to its end.
RetryDone == wpc = "recv" /\ path = "retry" /\ cerr = "nil"

LocalOnly(p) == Contains(localComposeFiles, p) /\ ~Contains(remoteComposeFiles, p)

RemoteOnly(p) == Contains(remoteComposeFiles, p) /\ ~Contains(localComposeFiles, p)

RetryPaths == {retryDeployments[i].Filepath : i \in DOMAIN retryDeployments}

\* C1: at most one reconciliation cycle is in progress at any time, and one
\* is in progress exactly while the worker is inside its cycle call.
C1_SingleFlight ==
    /\ active \in {0, 1}
    /\ active = 1 <=> wpc \notin {"recv", "exited"}

\* A second cycle is running while the timer goroutine is blocked at its
\* send and a webhook request has been dropped.
C1_Witness ==
    /\ active = 1
    /\ cycles = 2
    /\ tpc = "send"
    /\ lastHook = "dropped"

\* C2: in a full cycle every Stop of a Removed deployment precedes the
\* repository Pull, and the successful Pull precedes every config reload,
\* image pull and Start of a deployment that is not Removed.
C2_StopPullStart ==
    path = "full" =>
        LET pulls == Entries({"RepoPull"})
            pulled(j) == \E k \in pulls : k < j /\ log[k].f = "ok"
        IN \A j \in DOMAIN log :
            /\ (log[j].op = "Stop" /\ LocalOnly(log[j].p))
               => \A k \in pulls : j < k
            /\ (log[j].op \in {"PullImage", "Start"} /\ ~LocalOnly(log[j].p))
               => pulled(j)
            /\ (/\ log[j].op = "LoadConfig"
                /\ \/ RemoteOnly(log[j].p)
                   \/ \E k \in 1..(j - 1) :
                        log[k].op = "LoadConfig" /\ log[k].p = log[j].p)
               => pulled(j)

\* A full cycle that stopped a removed stack, pulled, and started another.
C2_Witness ==
    /\ FullDone
    /\ \E p \in Paths : LocalOnly(p) /\ Called({"Stop"}, p)
    /\ \E p \in Paths : ~LocalOnly(p) /\ Called({"Start"}, p)

\* C3: once the deployments of a full cycle are built, the deployment of
\* every local-only path is Removed, up to the end of the cycle, and neither
\* Start nor an image pull is invoked for it.
C3_RemovedNeverStarted ==
    Built =>
        \A p \in Paths : LocalOnly(p) =>
            /\ \E i \in DOMAIN deployments :
                 deployments[i].Filepath = p /\ deployments[i].State = "Removed"
            /\ ~Called({"Start", "PullImage"}, p)

\* A full cycle ended with a local-only path whose running stack was stopped.
C3_Witness ==
    /\ FullDone
    /\ \E p \in Paths : LocalOnly(p) /\ Called({"Stop"}, p) /\ p \notin running
    /\ \E p \in Paths : Called({"Start"}, p)

\* C4: Start and Stop are never invoked on a manifest that carries the
\* controller label, in full cycles and in retry passes alike.
C4_ControllerUntouched ==
    \A i \in Entries({"Start", "Stop"}) :
        ~HasLabel(log[i].f, "gitops.controller", "true")

\* A full cycle ended in which the controller's manifest was removed from
\* the repository, its stack is still running, and another stack was started.
C4_Witness ==
    /\ FullDone
    /\ \E i \in DOMAIN deployments :
         /\ IsController(deployments[i])
         /\ deployments[i].State = "Removed"
         /\ deployments[i].Filepath \in running
    /\ \E p \in Paths : Called({"Start"}, p)

\* The deployments of the cycle whose loaded config carries the ignore label.
IgnoredDeployments == {i \in DOMAIN deployments : IsIgnored(deployments[i])}

\* C5 as stated: a full cycle invokes no image pull, Start or Stop for an
\* ignored deployment and counts every one of them, whatever its state.
C5_IgnoredCountedAnyState ==
    FullDone =>
        /\ \A i \in IgnoredDeployments :
             ~Called({"PullImage", "Start", "Stop"}, deployments[i].Filepath)
        /\ state.Ignored = Cardinality(IgnoredDeployments)

\* C5 amended: a full cycle invokes no image pull, Start or Stop for an
\* ignored deployment, and counts the ignored deployments that are Added,
\* Updated or Unchanged once each; a Removed one is not counted.
C5_IgnoredCountedUnlessRemoved ==
    FullDone =>
        /\ \A i \in IgnoredDeployments :
             ~Called({"PullImage", "Start", "Stop"}, deployments[i].Filepath)
        /\ state.Ignored =
             Cardinality({i \in IgnoredDeployments :
                            deployments[i].State # "Removed"})

\* A full cycle ended with an ignored deployment that was classified Updated
\* and counted, while another stack was started.
C5_Witness ==
    /\ FullDone
    /\ \E i \in IgnoredDeployments : deployments[i].State = "Updated"
    /\ state.Ignored = 1
    /\ \E p \in Paths : Called({"Start"}, p)

\* The fingerprint LoadConfig yields for file content f.
Fingerprint(f) ==
    IF LoadProjectOk(f) THEN Sha256Hex(ProjectYaml(f)) ELSE EmptyHash

\* The file content the first LoadConfig of the cycle saw at path p.
FirstLoaded(p) ==
    LET S == {i \in Entries({"LoadConfig"}) : log[i].p = p}
    IN log[CHOOSE i \in S : \A k \in S : i <= k].f

\* C6: after the reload step each deployment is classified by set
\* membership and fingerprint: local-only -> Removed, remote-only -> Added,
\* in both listings with a fingerprint after the pull that differs from the
\* one loaded before the pull -> Updated, with the same fingerprint ->
\* Unchanged.
C6_Classification ==
    (path = "full" /\ wpc = "apply" /\ idx = 1) =>
        \A i \in DOMAIN deployments :
            LET d == deployments[i]
                p == d.Filepath
            IN d.State =
                 IF LocalOnly(p) THEN "Removed"
                 ELSE IF RemoteOnly(p) THEN "Added"
                 ELSE IF d.config.hash # Fingerprint(FirstLoaded(p))
                      THEN "Updated"
                      ELSE "Unchanged"

\* The paths whose Apply in the current/last cycle returned err.
ApplyReturned(err) ==
    {log[i].p : i \in {k \in Entries({"Apply"}) : log[k].f = err}}

\* C7: after a full pass without a cycle-level error the retry set is exactly
\* the set of that cycle's deployments whose Apply failed with
\* ImagePullBackoff; nothing else, and nothing of an earlier retry set, is in
\* it.
C7_RetrySetReplaced ==
    FullDone =>
        /\ RetryPaths = ApplyReturned("ErrImagePullBackoff")
        /\ \A i \in DOMAIN retryDeployments :
             \E j \in DOMAIN deployments : deployments[j] = retryDeployments[i]

\* A full pass after the first cycle ended with one deployment in image pull
\* backoff, which is in the retry set, and one that failed otherwise, which
\* is not.
C7_Witness ==
    /\ FullDone
    /\ cycles >= 2
    /\ RetryPaths # {}
    /\ ApplyReturned("ErrOther") # {}

\* C8 as stated: a retry pass removes a deployment from the retry set only
\* when its Apply succeeded; every entry whose Apply did not succeed stays.
C8_RetryKeptUntilSuccess ==
    RetryDone =>
        /\ ApplyReturned("nil") \cap RetryPaths = {}
        /\ \A i \in Entries({"Apply"}) :
             log[i].f # "nil" => log[i].p \in RetryPaths

\* C8 amended: a retry pass keeps exactly the entries whose Apply failed
\* again with ImagePullBackoff; an entry is removed when its Apply succeeds
\* or fails with any other error.
C8_RetryKeptOnBackoff ==
    RetryDone =>
        /\ RetryPaths = ApplyReturned("ErrImagePullBackoff")
        /\ ApplyReturned("nil") \cap RetryPaths = {}

\* A retry pass ended with an entry whose Apply failed again with
\* ImagePullBackoff and which is still in the retry set.
C8_Witness ==
    /\ RetryDone
    /\ RetryPaths # {}
    /\ ApplyReturned("ErrImagePullBackoff") # {}

\* The paths of the retry entries the retry loop has been through.
RetriedPaths ==
    {retryDeployments[i].Filepath :
        i \in {k \in DOMAIN retryDeployments : k < idx}}

\* C9: a cycle that is not the first one and in which HasChanges reports
\* false without error skips the full diff: no listing, registry login,
\* repository pull or config load happens, and Apply, image pulls, Start and
\* Stop are invoked only on entries of the retry set.
C9_NoChangeSkipsFullDiff ==
    (cycles >= 2 /\ wpc # "check" /\ cerr = "nil" /\ ~hasChanges) =>
        /\ path = "retry"
        /\ Entries({"ListLocal", "ListRemote", "Login", "RepoPull",
                    "LoadConfig"}) = {}
        /\ wpc = "retry" =>
             \A i \in Entries({"Apply", "PullImage", "Start", "Stop"}) :
                 log[i].p \in RetriedPaths

\* The retry loop of a later cycle has applied a retry entry and started its
\* stack.
C9_Witness ==
    /\ cycles >= 2
    /\ wpc = "retry"
    /\ idx > 1
    /\ ~hasChanges
    /\ \E p \in RetriedPaths : Called({"Start"}, p)

\* C10: the first cycle after process start takes the full pass, whatever
\* change detection returned for it.
C10_FirstCycleFull ==
    (cycles = 1 /\ wpc = "recv") => path = "full"

\* The triggers sent on the check channel and not yet received: the channel
\* has no buffer, so these are the senders blocked in their send.
Pending == IF tpc = "parked" /\ ~checkClosed THEN 1 ELSE 0

\* A step of the /webhook handler.
WebhookStep == hooks' = hooks + 1

C12_WebhookQueuedDuringCycle ==
    [][(WebhookStep /\ active = 1 /\ Pending = 0 /\ ~checkClosed)
         => lastHook' = "accepted"]_vars

\* C13: after the termination signal no new cycle starts, and the process
\* neither exits nor crashes while a cycle is in flight.
C13_ShutdownLetsCycleFinish ==
    [][/\ checkClosed => cycles' = cycles
       /\ active' = 1 => mpc' \notin {"exited", "crashed"}]_vars

\* The cycle ended with a cycle-level error.
Aborted == wpc = "recv" /\ cerr # "nil"

\* C14 as stated: a cycle that ends with a precondition error has stopped,
\* started and pulled images for no deployment.
C14_AbortWithoutApplication ==
    Aborted => Entries({"Stop", "Start", "PullImage"}) = {}

\* C14 amended: a cycle that ends with a precondition error has started and
\* pulled images for no deployment; it has stopped none when the error came
\* from change detection, a listing or the registry login, and when the
\* repository pull failed it has stopped only removed deployments.
C14_AbortBeforeStart ==
    Aborted =>
        /\ Entries({"Start", "PullImage"}) = {}
        /\ cerr # "pull" => Entries({"Stop", "Apply"}) = {}
        /\ \A i \in Entries({"Stop", "Apply"}) : LocalOnly(log[i].p)

\* The repository pull failed after a removed stack was stopped.
C14_Witness ==
    /\ Aborted
    /\ cerr = "pull"
    /\ \E p \in Paths : LocalOnly(p) /\ Called({"Stop"}, p) /\ p \notin running

\* Apply was called on the i-th deployment of the cycle.
Applied(i) == Called({"Apply"}, deployments[i].Filepath)

\* The deployments of a full pass that the stop loop has gone past.
StopLoopPast ==
    IF path # "full" THEN {}
    ELSE IF wpc = "stop" THEN {i \in DOMAIN deployments : i < idx}
    ELSE IF wpc \in {"reload", "apply"} \/ (wpc = "recv" /\ cerr \in {"nil", "pull"})
    THEN DOMAIN deployments
    ELSE {}

\* The deployments of a full pass that the apply loop has gone past.
ApplyLoopPast ==
    IF path # "full" THEN {}
    ELSE IF wpc = "apply" THEN {i \in DOMAIN deployments : i < idx}
    ELSE IF FullDone THEN DOMAIN deployments
    ELSE {}

\* The paths whose Apply in the current/last cycle returned an error.
ApplyFailed == {log[i].p : i \in {k \in Entries({"Apply"}) : log[k].f # "nil"}}

\* C15: whatever deployment-level errors occurred, every deployment a loop
\* of the cycle has gone past and does not skip was applied, in the stop
\* loop, the apply loop and the retry loop; such an error never becomes a
\* cycle-level error, and the worker and the process only stop after the
\* termination signal.
C15_ErrorsDoNotStopProcessing ==
    /\ \A i \in StopLoopPast :
         (~IsIgnored(deployments[i]) /\ ~IsController(deployments[i])
            /\ deployments[i].State = "Removed") => Applied(i)
    /\ \A i \in ApplyLoopPast :
         (~IsIgnored(deployments[i]) /\ ~IsController(deployments[i])
            /\ deployments[i].State # "Removed") => Applied(i)
    /\ (path = "retry" /\ wpc = "retry") =>
         \A i \in DOMAIN retryDeployments :
             i < idx => Called({"Apply"}, retryDeployments[i].Filepath)
    /\ (ApplyFailed # {} /\ wpc = "recv") => cerr \in {"nil", "pull"}
    /\ ~checkClosed => (mpc = "serve" /\ wpc # "exited")

\* A full pass of a later cycle ended in which the Apply of one deployment
\* failed and a deployment after it was applied and started, and the worker
\* waits for the next trigger.
C15_Witness ==
    /\ FullDone
    /\ cycles >= 2
    /\ ~checkClosed
    /\ \E i, j \in Entries({"Apply"}) :
         /\ i < j
         /\ log[i].f # "nil"
         /\ log[j].f = "nil"
         /\ Called({"Start"}, log[j].p)

\* The deployments of the cycle whose config failed to load.
InvalidDeployments ==
    {i \in DOMAIN deployments : ~deployments[i].config.isValid}

\* C16: a deployment whose config failed to load is counted Invalid and not
\* Failed, has no image pull, Start or Stop invoked for it in the cycle, and
\* is not in the retry set.
C16_InvalidCountedNotApplied ==
    FullDone =>
        /\ state.Invalid = Cardinality(InvalidDeployments)
        /\ state.Failed =
             Cardinality({k \in Entries({"Apply"}) :
                            log[k].f \notin {"nil", "ErrInvalidComposeFile"}})
             + Cardinality({i \in DOMAIN deployments :
                              PostCounter(deployments[i]) = "Failed"})
        /\ \A i \in InvalidDeployments :
             LET p == deployments[i].Filepath
             IN /\ p \in ApplyReturned("ErrInvalidComposeFile")
                /\ ~Called({"PullImage", "Start", "Stop"}, p)
                /\ p \notin RetryPaths

\* A full pass ended with one deployment whose pulled manifest does not
\* load, counted Invalid, and another whose Apply failed, counted Failed.
C16_Witness ==
    /\ FullDone
    /\ \E i \in InvalidDeployments : deployments[i].State # "Removed"
    /\ state.Invalid = 1
    /\ state.Failed = 1

\* The deployments the current cycle works on, as far as they are still
\* known: those of the full pass, or the retry set while the retry loop runs.
Subjects ==
    IF path = "full" THEN deployments
    ELSE IF wpc = "retry" THEN retryDeployments
    ELSE << >>

\* The image pulls made for path p before log position j.
PullsBefore(p, j) ==
    {k \in Entries({"PullImage"}) : k < j /\ log[k].p = p}

\* C17: for an Added or Updated deployment every Start comes after a pull of
\* each image of the manifest in the same Apply, none of which failed, and no
\* pull follows it; when an image pull failed, neither Stop nor Start was
\* invoked for the deployment.
C17_PullBeforeStart ==
    \A i \in DOMAIN Subjects :
        LET d == Subjects[i]
            p == d.Filepath
        IN d.State \in {"Added", "Updated"} =>
            /\ \A j \in Entries({"Start"}) :
                 log[j].p = p =>
                   /\ Cardinality(PullsBefore(p, j)) = Len(Images(log[j].f))
                   /\ PullsBefore(p, Len(log) + 1) = PullsBefore(p, j)
                   /\ \A k \in Entries({"Stop"}) : log[k].p = p => k < j
            /\ p \in ApplyReturned("ErrImagePullBackoff") =>
                 ~Called({"Stop", "Start"}, p)

\* A full pass ended in which an Updated deployment with two images was
\* pulled, stopped and started, and an Added deployment whose image pull
\* failed was not started.
C17_Witness ==
    /\ FullDone
    /\ \E i \in DOMAIN deployments :
         /\ deployments[i].State = "Updated"
         /\ Len(Images(local[deployments[i].Filepath])) = 2
         /\ Called({"Stop"}, deployments[i].Filepath)
         /\ Called({"Start"}, deployments[i].Filepath)
    /\ \E i \in DOMAIN deployments :
         /\ deployments[i].State = "Added"
         /\ deployments[i].Error = "ErrImagePullBackoff"
         /\ Called({"PullImage"}, deployments[i].Filepath)

\* The step is an Apply of the deployment at path p, through
\* applyDeploymentChange.
AppliedNow(p) ==
    /\ Len(log') > Len(log)
    /\ log'[Len(log')].op = "Apply"
    /\ log'[Len(log')].p = p

\* The collaborator calls of kind ops that the step makes.
NewEntries(ops) ==
    {k \in DOMAIN log' : k > Len(log) /\ log'[k].op \in ops}

\* The error the Apply of the step returns.
ReturnedNow == log'[Len(log')].f

\* The deployment at path p that the step applies is in state s, with a
\* loaded config that is neither ignored nor controller.
Applies(p, s) ==
    /\ AppliedNow(p)
    /\ \E i \in DOMAIN Subjects :
         /\ Subjects[i].Filepath = p
         /\ Subjects[i].State = s
         /\ Subjects[i].config.isValid
         /\ ~IsIgnored(Subjects[i])
         /\ ~IsController(Subjects[i])

\* C18 as stated: applying an Unchanged deployment whose stack is running
\* pulls the images, invokes neither Start nor Stop, and is counted as
\* unchanged.
C18_UnchangedRunningCountedUnchanged ==
    [][\A p \in Paths :
         (Applies(p, "Unchanged") /\ p \in running) =>
            /\ ReturnedNow = "nil" =>
                 Cardinality(NewEntries({"PullImage"})) = Len(Images(local[p]))
            /\ NewEntries({"Start", "Stop"}) = {}
            /\ p \in running'
            /\ state' = Inc(state, "Unchanged")]_vars

\* C18 amended: applying an Unchanged deployment whose stack is running
\* invokes neither Start nor Stop and leaves the stack running; when no
\* collaborator call fails it pulls every image and is counted as unchanged,
\* and when one fails it is counted as failed.
C18_UnchangedRunningNoRestart ==
    [][\A p \in Paths :
         (Applies(p, "Unchanged") /\ p \in running) =>
            /\ NewEntries({"Start", "Stop"}) = {}
            /\ p \in running'
            /\ IF ReturnedNow = "nil"
               THEN /\ Cardinality(NewEntries({"PullImage"}))
                         = Len(Images(local[p]))
                    /\ state' = Inc(state, "Unchanged")
               ELSE state' = Inc(state, "Failed")]_vars

\* A full pass ended in which an Unchanged deployment whose stack was
\* running had its images pulled, was not started, and was counted.
C18_Witness ==
    /\ FullDone
    /\ state.Unchanged = 1
    /\ \E i \in DOMAIN deployments :
         LET p == deployments[i].Filepath
         IN /\ deployments[i].State = "Unchanged"
            /\ deployments[i].Error = "nil"
            /\ p \in running
            /\ Called({"PullImage"}, p)
            /\ ~Called({"Start", "Stop"}, p)

\* C19: applying a Removed deployment invokes Stop only when the stack is
\* running, and then exactly once unless the running-state query failed;
\* with the stack not running it invokes nothing and changes nothing.  It
\* never pulls or starts, and it is counted as stopped exactly when Stop was
\* invoked and succeeded.
C19_RemovedStopsIffRunning ==
    [][\A p \in Paths :
         Applies(p, "Removed") =>
            /\ NewEntries({"Start", "PullImage"}) = {}
            /\ NewEntries({"Stop"}) # {} => p \in running
            /\ (p \in running /\ ReturnedNow = "nil") =>
                 /\ Cardinality(NewEntries({"Stop"})) = 1
                 /\ p \notin running'
            /\ p \notin running =>
                 /\ NewEntries({"Stop"}) = {}
                 /\ running' = running
                 /\ ReturnedNow = "nil" => state' = Inc(state, "Unchanged")
            /\ ReturnedNow # "nil" =>
                 /\ running' = running
                 /\ state' = Inc(state, "Failed")
            /\ state' = Inc(state, "Stopped")
                 <=> (NewEntries({"Stop"}) # {} /\ ReturnedNow = "nil")]_vars

\* A full pass of a later cycle ended in which one removed stack was stopped
\* and counted as stopped.
C19_Witness ==
    /\ FullDone
    /\ cycles >= 2
    /\ state.Stopped = 1
    /\ \E i \in DOMAIN deployments :
         LET p == deployments[i].Filepath
         IN /\ deployments[i].State = "Removed"
            /\ deployments[i].Error = "nil"
            /\ Called({"Stop"}, p)
            /\ p \notin running

\* The collaborator calls of a full recreate of the stack at path p, in
\* order: a pull per image, Stop when the stack is running, Start.
Recreate(p) ==
    [i \in 1..Len(Images(local[p])) |-> Op("PullImage", p, local[p])]
    \o (IF p \in running THEN << Op("Stop", p, local[p]) >> ELSE << >>)
    \o << Op("Start", p, local[p]) >>

\* C20: applying an Updated deployment whose collaborator calls all succeed
\* pulls every image, then stops the stack if it is running, then starts it;
\* the stack runs afterwards and the deployment is counted as updated.
C20_UpdatedRecreates ==
    [][\A p \in Paths :
         (Applies(p, "Updated") /\ ReturnedNow = "nil") =>
            /\ SelectSeq(SubSeq(log', Len(log) + 1, Len(log') - 1),
                         LAMBDA e : e.op # "RegistryPull") = Recreate(p)
            /\ p \in running'
            /\ state' = Inc(state, "Updated")]_vars

\* A full pass ended in which an Updated deployment whose stack was running
\* was pulled, stopped and started again, and counted as updated.
C20_Witness ==
    /\ FullDone
    /\ state.Updated = 1
    /\ \E i \in DOMAIN deployments :
         LET p == deployments[i].Filepath
         IN /\ deployments[i].State = "Updated"
            /\ deployments[i].Error = "nil"
            /\ Called({"PullImage"}, p)
            /\ Called({"Stop"}, p)
            /\ Called({"Start"}, p)
            /\ p \in running

\* ------------------------------------------------------------------------
\* Scenario: the local head holds manifests a and b, the remote head holds a
\* modified b and a new c, the stacks of a and b run, no manifest is labelled.
\* ------------------------------------------------------------------------
InitScenario ==
    InitWith([a |-> "v1", b |-> "v1", c |-> "none"],
             [a |-> "none", b |-> "v2", c |-> "v1"],
             {"a", "b"})

NextScenario ==
    \/ Tick
    \/ TickerSend
    \/ CheckStep
    \/ ListStep
    \/ StopStep
    \/ PullStep
    \/ ReloadStep
    \/ ApplyStep
    \/ FinishFull
    \/ RetryStep
    \/ FinishRetry

SpecScenario == InitScenario /\ [][NextScenario]_vars

\* The collaborator calls of the cycle made for path p, in order.
CallsFor(p) ==
    SelectSeq(log, LAMBDA e : e.p = p /\ e.op \in {"PullImage", "Stop", "Start"})

\* C21: in the scenario, with every collaborator call succeeding, the first
\* cycle stops a, pulls, stops and starts b, pulls and starts c, and counts
\* stopped = 1, updated = 1, started = 1 and nothing else.
C21_ScenarioCounts ==
    (FullDone /\ cycles = 1 /\ faults = 0) =>
        /\ state = [NewState EXCEPT !.Stopped = 1, !.Updated = 1, !.Started = 1]
        /\ CallsFor("a") = << Op("Stop", "a", "v1") >>
        /\ CallsFor("b") = << Op("PullImage", "b", "v2"), Op("PullImage", "b", "v2"),
                              Op("Stop", "b", "v2"), Op("Start", "b", "v2") >>
        /\ CallsFor("c") = << Op("PullImage", "c", "v1"), Op("Start", "c", "v1") >>
        /\ running = {"b", "c"}
        /\ retryDeployments = << >>

\* The first cycle of the scenario ended without any failing call.
C21_Witness ==
    /\ FullDone
    /\ cycles = 1
    /\ faults = 0
    /\ state.Stopped = 1
    /\ [i \in DOMAIN deployments |-> deployments[i].State]
         = << "Removed", "Updated", "Added" >>

\* The step ends a retry pass in which every retried Apply returned what it
\* returned in the cycle before: ImagePullBackoff again.
RetryPassRepeats ==
    /\ wpc = "retry"
    /\ wpc' = "recv"
    /\ retryDeployments' = retryDeployments

\* C22: a cycle that detects no repository change and in which the
\* collaborators answer as in the cycle before leaves the aggregate counts
\* of the metrics sink as they were.
C22_RepeatKeepsCounts ==
    [][RetryPassRepeats => metricsState' = metricsState]_vars

\* A retry pass ended in which the retried deployment failed again, with the
\* sink still counting one failed deployment and one started one.
C22_Witness ==
    /\ RetryDone
    /\ retryDeployments # << >>
    /\ state.Failed = 1
    /\ metricsState.Failed = 1
    /\ metricsState.Started = 1

\* C23: LoadConfig is invoked for a path of the remote listing that the
\* local listing lacks only after the repository pull of the cycle has
\* succeeded.
C23_AddedLoadedAfterPull ==
    \A j \in Entries({"LoadConfig"}) :
        RemoteOnly(log[j].p) =>
            \E k \in Entries({"RepoPull"}) : k < j /\ log[k].f = "ok"

\* A full pass ended in which the config of an added manifest was loaded
\* from the pulled working copy.
C23_Witness ==
    /\ FullDone
    /\ \E j \in Entries({"LoadConfig"}) :
         /\ RemoteOnly(log[j].p)
         /\ log[j].f = local[log[j].p]
         /\ LoadProjectOk(log[j].f)

\* The manifest paths of the two listings of the cycle.
ListedPaths ==
    {p \in Paths : Contains(localComposeFiles, p) \/ Contains(remoteComposeFiles, p)}

\* C24: a full pass builds exactly one deployment for every path of the
\* union of the local and the remote listing and none for any other path,
\* and calls Apply at most once per path in the cycle.
C24_OneDeploymentPerPath ==
    /\ Built =>
         /\ \A p \in ListedPaths :
              Cardinality({i \in DOMAIN deployments :
                             deployments[i].Filepath = p}) = 1
         /\ \A i \in DOMAIN deployments : deployments[i].Filepath \in ListedPaths
    /\ path = "full" =>
         \A p \in Paths :
             Cardinality({k \in Entries({"Apply"}) : log[k].p = p}) <= 1

\* A full pass ended that had built three deployments and applied one in
\* the stop loop and one in the apply loop.
C24_Witness ==
    /\ FullDone
    /\ Len(deployments) = Cardinality(Paths)
    /\ \E i, j \in DOMAIN deployments :
         /\ deployments[i].State = "Removed"
         /\ deployments[j].State # "Removed"
         /\ Applied(i)
         /\ Applied(j)

\* The file content the latest LoadConfig of the cycle saw at path p.
LastLoaded(p) ==
    LET S == {i \in Entries({"LoadConfig"}) : log[i].p = p}
    IN log[CHOOSE i \in S : \A k \in S : i >= k].f

\* Some service of the manifest f carries the label with value "true".
LabelSet(f, label) ==
    \E i \in DOMAIN Services(f) : <<label, "true">> \in Services(f)[i]

\* C25: after a successful LoadConfig the deployment is ignored iff some
\* service of the manifest has label gitops.ignore = "true" and is a
\* controller iff some service has label gitops.controller = "true"; after a
\* failed LoadConfig both flags are false.
C25_LabelFlags ==
    path = "full" =>
      \A i \in DOMAIN deployments :
        LET d == deployments[i]
            p == d.Filepath
        IN Called({"LoadConfig"}, p) =>
             IF LoadProjectOk(LastLoaded(p))
             THEN /\ IsIgnored(d) <=> LabelSet(LastLoaded(p), "gitops.ignore")
                  /\ IsController(d) <=> LabelSet(LastLoaded(p), "gitops.controller")
             ELSE ~IsIgnored(d) /\ ~IsController(d)
C25_Witness ==
    /\ path = "full"
    /\ \E j, k \in DOMAIN deployments :
         /\ Called({"LoadConfig"}, deployments[j].Filepath)
         /\ Called({"LoadConfig"}, deployments[k].Filepath)
         /\ FirstLoaded(deployments[j].Filepath) = "ign"
         /\ LastLoaded(deployments[j].Filepath) = "ctl"
         /\ IsController(deployments[j]) /\ ~IsIgnored(deployments[j])
         /\ LastLoaded(deployments[k].Filepath) = "bad"
         /\ ~IsIgnored(deployments[k]) /\ ~IsController(deployments[k])

\* The deployments of the cycle whose loaded config carries the controller
\* label.
ControllerDeployments ==
    {i \in DOMAIN deployments : IsController(deployments[i])}

\* The controller deployments of the set S that are classified Removed or
\* Added.
Misplaced(S) == {i \in S : deployments[i].State \in {"Removed", "Added"}}

\* The Apply calls of the cycle that returned an error other than an invalid
\* config.
FailedApplies ==
    {k \in Entries({"Apply"}) : log[k].f \notin {"nil", "ErrInvalidComposeFile"}}

\* C26 as stated: in a full cycle every controller deployment classified
\* Removed or Added increments the failed counter once, and a controller
\* deployment classified Updated or Unchanged is not applied and increments
\* no counter.
C26_ControllerFlagged ==
    FullDone =>
        /\ \A i \in ControllerDeployments :
             ~Called({"Apply", "PullImage", "Start", "Stop"}, deployments[i].Filepath)
        /\ state.Failed =
             Cardinality(FailedApplies)
             + Cardinality(Misplaced(ControllerDeployments))
        /\ CountTotal(state) =
             Cardinality(Entries({"Apply"}))
             + Cardinality({i \in IgnoredDeployments \ ControllerDeployments :
                              deployments[i].State # "Removed"})
             + Cardinality(Misplaced(ControllerDeployments))

\* C26 amended: the same for the controller deployments that do not also
\* carry the ignore label; one that does is handled as an ignored
\* deployment: counted as ignored unless Removed, and never as failed.
C26_ControllerFlaggedUnlessIgnored ==
    FullDone =>
        /\ \A i \in ControllerDeployments :
             ~Called({"Apply", "PullImage", "Start", "Stop"}, deployments[i].Filepath)
        /\ state.Failed =
             Cardinality(FailedApplies)
             + Cardinality(Misplaced(ControllerDeployments \ IgnoredDeployments))
        /\ CountTotal(state) =
             Cardinality(Entries({"Apply"}))
             + Cardinality({i \in IgnoredDeployments :
                              deployments[i].State # "Removed"})
             + Cardinality(Misplaced(ControllerDeployments \ IgnoredDeployments))

\* A full cycle ended with a controller deployment classified Added and
\* counted failed while another stack was applied, the controller's stack
\* not running.
C26_Witness ==
    /\ FullDone
    /\ \E i \in ControllerDeployments \ IgnoredDeployments :
         /\ deployments[i].State = "Added"
         /\ deployments[i].Filepath \notin running
    /\ state.Failed = 1
    /\ Cardinality(FailedApplies) = 0
    /\ Entries({"Apply"}) # {}

WatchedTree == [a |-> "wat", b |-> "none", c |-> "none"]

InitHash ==
    \E disk \in [WatchNames -> WatchStates] :
        InitOn(WatchedTree, WatchedTree, {}, disk)

\* Somebody edits, removes, creates or locks one watch file.
WatchEdit ==
    /\ \E w \in WatchNames : \E c \in WatchStates \ {watchFiles[w]} :
          watchFiles' = [watchFiles EXCEPT ![w] = c]
    /\ UNCHANGED <<origin, tracking, local, running, imageStore, watchSeen,
                   gitopsVars, schedVars, cycleVars, pushes, faults>>

\* LoadConfig on the deployment of the manifest, created by NewDeployment on
\* the first call.
HashLoad ==
    /\ deployments' =
         << LoadConfigOn(IF deployments = << >> THEN NewDeployment("a")
                         ELSE deployments[1],
                         local["a"], watchFiles) >>
    /\ watchSeen' = watchFiles
    /\ UNCHANGED <<origin, tracking, local, running, imageStore, watchFiles,
                   gitopsVars, schedVars, wpc, path, cerr, hasChanges,
                   localComposeFiles, remoteComposeFiles, idx, state,
                   newRetryDeployments, log, active, cycles, pushes, faults>>

NextHash ==
    \/ WatchEdit
    \/ HashLoad

SpecHash == InitHash /\ [][NextHash]_vars

\* The step is a LoadConfig of a deployment whose config was loaded before.
Reloads == deployments # << >> /\ deployments' # << >> /\ watchFiles' = watchFiles

\* C28: loading the config of an unmodified manifest again yields the same
\* fingerprint, and any modification of a declared watch file since the
\* previous load (other bytes, or the file unreadable or missing) yields
\* another fingerprint although the manifest text is the same.
C28_FingerprintTracksWatchFiles ==
    [][Reloads =>
         (deployments'[1].config.hash = deployments[1].config.hash
            <=> watchFiles = watchSeen)]_vars

\* Stop was invoked for the i-th deployment of the cycle, classified Removed,
\* and failed.
StopFailed(i) ==
    /\ deployments[i].State = "Removed"
    /\ deployments[i].Error # "nil"
    /\ Called({"Stop"}, deployments[i].Filepath)

NextLive ==
    \/ Tick
    \/ TickerPark
    \/ TickerSend
    \/ TickerPanic
    \/ Webhook
    \/ Signal
    \/ HttpShutdown
    \/ WorkerExit
    \/ MainExit
    \/ CheckStep
    \/ ListStep
    \/ StopStep
    \/ PullStep
    \/ ReloadStep
    \/ ApplyStep
    \/ FinishFull
    \/ RetryStep
    \/ FinishRetry

\* The worker goroutine: one sequential process.
WorkerNext ==
    \/ CheckStep
    \/ ListStep
    \/ StopStep
    \/ PullStep
    \/ ReloadStep
    \/ ApplyStep
    \/ FinishFull
    \/ RetryStep
    \/ FinishRetry
    \/ WorkerExit

\* main after the signal: s.Shutdown returns, then wg.Wait.
MainNext ==
    \/ HttpShutdown
    \/ MainExit

\* A runnable goroutine runs: the worker goes on with its cycle and leaves
\* its loop, main goes on once the HTTP server is down, and a timer goroutine
\* whose send can complete or panic does so.  No assumption on when ticks,
\* webhook requests and the signal arrive.
FairLive ==
    /\ WF_vars(WorkerNext)
    /\ WF_vars(MainNext)
    /\ WF_vars(TickerSend)
    /\ WF_vars(TickerPanic)

SpecLive == InitScenario /\ [][NextLive]_vars /\ FairLive

\* C30: after the termination signal the process eventually exits in the
\* orderly way (the worker leaves its receive loop, wg.Wait returns and main
\* ends), whatever the timer goroutine is doing.
C30_EventuallyExits == checkClosed ~> (wpc = "exited" /\ mpc = "exited")

\* The step is a CheckAndUpdate whose change detection fails.
CheckFails == wpc = "check" /\ cerr' = "HasChanges"

\* C31: when the change detection fails, the cycle records an error status
\* and returns: nothing is listed, no login, pull or Apply happens, no stack
\* and no file of the working copy changes, and the retry set and the
\* aggregate counts of the metrics sink stay as they are.
C31_CheckErrorLeavesAll ==
    [][CheckFails =>
         /\ wpc' = "recv"
         /\ log' = << Status("error") >>
         /\ retryDeployments' = retryDeployments
         /\ metricsState' = metricsState
         /\ running' = running /\ local' = local /\ imageStore' = imageStore
         /\ state' = NewState]_vars

\* The change detection failed in a cycle that found a non-empty retry set
\* and non-zero aggregate counts, and left both.
C31_Witness ==
    /\ wpc = "recv"
    /\ cerr = "HasChanges"
    /\ retryDeployments # << >>
    /\ metricsState.Failed > 0
    /\ log = << Status("error") >>

\* C32: no send on the check channel is attempted after the channel has been
\* closed: neither the timer goroutine nor a webhook handler sends on the
\* closed channel (such a send panics).
C32_NoSendAfterClose == mpc # "crashed" /\ lastHook # "panic"

\* C33: every call of CheckAndUpdate records exactly one check status in
\* the metrics sink: never two, and one once the call has returned.
C33_OneCheckStatus ==
    /\ Cardinality(Entries({"TrackCheckStatus"})) <= 1
    /\ (wpc = "recv" /\ cycles > 0) =>
         Cardinality(Entries({"TrackCheckStatus"})) = 1

\* C34: whenever HasChanges returns without error on a clean working copy
\* whose local main ref differs from the remote-tracking ref, it returns
\* true, and the cycle takes the full-diff path: also in the cycle after one
\* that detected the change and then aborted.
C34_PendingChangeDetected ==
    (wpc \in {"list", "retry"} /\ local # tracking) =>
        hasChanges /\ path = "full"

\* The counters applyDeploymentChange may increment.
ApplyCounters ==
    {"Unchanged", "Started", "Stopped", "Updated", "Failed", "Invalid"}

\* C35: every call of applyDeploymentChange increments exactly one of the
\* counters unchanged, started, stopped, updated, failed, invalid by one and
\* leaves every other counter as it is, whatever the deployment's state and
\* whatever Apply returns; an error other than an invalid config counts as
\* failed, an invalid config as invalid, and no error as one of the others.
C35_OneCounterPerApply ==
    [][\A p \in Paths :
         AppliedNow(p) =>
            \E c \in ApplyCounters :
               /\ state'[c] = state[c] + 1
               /\ \A k \in DOMAIN state \ {c} : state'[k] = state[k]
               /\ c = "Invalid" <=> ReturnedNow = "ErrInvalidComposeFile"
               /\ c = "Failed" <=>
                    ReturnedNow \notin {"nil", "ErrInvalidComposeFile"}]_vars

\* A full pass ended with at least two Apply calls, one counted failed or
\* invalid and one counted as a stack stopped, started or updated.
C35_Witness ==
    /\ FullDone
    /\ Cardinality(Entries({"Apply"})) >= 2
    /\ state.Failed + state.Invalid >= 1
    /\ state.Stopped + state.Started + state.Updated >= 1
    /\ CountTotal(state) - state.Ignored = Cardinality(Entries({"Apply"}))

\* The step ends a retry pass: TrackState merges the pass's counts.
RetryPassEnds == wpc = "retry" /\ wpc' = "recv"

\* C36: after any sequence of cycles no aggregate count of the metrics sink
\* is negative and the aggregate failed count is at least the size of the
\* retry set; a retry pass leaves the sum of the aggregate counts as it is.
C36_AggregateCountsSound ==
    [][/\ \A k \in DOMAIN metricsState' : metricsState'[k] >= 0
       /\ metricsState'.Failed >= Len(retryDeployments')
       /\ RetryPassEnds =>
            CountTotal(metricsState') = CountTotal(metricsState)]_vars

\* A retry pass ended in which the retried deployment was started: the sink
\* counts no failed deployment any more and the retry set is empty.
C36_Witness ==
    /\ RetryDone
    /\ Called({"Apply"}, "a") \/ Called({"Apply"}, "c")
    /\ retryDeployments = << >>
    /\ state.Started + state.Updated = 1
    /\ metricsState.Failed = 0
    /\ CountTotal(metricsState) >= 1

\* The step ends a full pass with a cycle-level error.
FullPassAborts == path = "full" /\ wpc # "recv" /\ wpc' = "recv" /\ cerr' # "nil"

\* C37: a cycle that takes the full-diff path and aborts with a cycle-level
\* error (listing, login or pull failure) leaves the retry set as it was
\* before the cycle.
C37_AbortKeepsRetrySet ==
    [][FullPassAborts => retryDeployments' = retryDeployments]_vars

\* ------------------------------------------------------------------------
\* Process start with a running stack at path a whose manifest in the
\* working copy no longer loads (a commit broke it after the stack had been
\* started), and any remote head.
\* ------------------------------------------------------------------------
InitBroken ==
    \E org \in {t \in Trees : t["b"] \in {"none", "ign"}} :
        InitWith([a |-> "bad", b |-> "none", c |-> "none"], org, {"a"})

SpecBroken == InitBroken /\ [][NextRec]_vars

\* C38: in a full cycle that reaches the repository pull, Stop was invoked
\* before the pull for every Removed deployment that is neither ignored nor
\* a controller and whose stack is running, also when its manifest in the
\* working copy failed to load.
C38_RemovedStoppedBeforePull ==
    path = "full" =>
      \A k \in Entries({"RepoPull"}) :
        \A i \in DOMAIN deployments :
          LET d == deployments[i]
          IN (/\ d.State = "Removed"
              /\ ~IsIgnored(d) /\ ~IsController(d)
              /\ d.Filepath \in running)
             => \E j \in Entries({"Stop"}) : j < k /\ log[j].p = d.Filepath

\* The retry entry for path p.
RetryEntry(p) ==
    retryDeployments[CHOOSE i \in DOMAIN retryDeployments :
                        retryDeployments[i].Filepath = p]

\* C39: the retry set holds only deployments in state Added, Updated or
\* Unchanged with a valid config that is neither ignored nor controller, never
\* a Removed one; a retry pass invokes Stop only on a deployment whose
\* recorded state is Updated.
C39_RetrySetContent ==
    /\ \A i \in DOMAIN retryDeployments :
         /\ retryDeployments[i].State \in {"Added", "Updated", "Unchanged"}
         /\ retryDeployments[i].config.isValid
         /\ ~IsIgnored(retryDeployments[i])
         /\ ~IsController(retryDeployments[i])
    /\ (path = "retry" /\ wpc = "retry") =>
         \A k \in Entries({"Stop"}) :
            /\ log[k].p \in RetryPaths
            /\ RetryEntry(log[k].p).State = "Updated"

\* A retry pass ended in which an Updated deployment, whose image pull had
\* failed in the full pass, was pulled, stopped and started.
C39_Witness ==
    /\ RetryDone
    /\ Called({"Stop"}, "a")
    /\ Called({"Start"}, "a")
    /\ state.Updated = 1

\* C40: after a full cycle the running value reported to the metrics sink
\* (unchanged + started + updated) counts only deployments that the remote
\* head declares and that run: no Removed deployment contributes to it.
C40_RunningCountsDeclared ==
    FullDone =>
        CountRunning(metricsState) <=
            Cardinality({i \in DOMAIN deployments :
                           /\ deployments[i].State # "Removed"
                           /\ deployments[i].Filepath \in running})

====
